---------------------------- MODULE Spec2Model ----------------------------
(***************************************************************************)
(* Kernicle: the capture pipeline of `kernicle push`.                      *)
(*                                                                         *)
(*   - services/timeparse.py : parse_range, _format_journalctl_since_arg   *)
(*   - services/journal.py   : capture_kernel, capture_system              *)
(*   - services/archive.py   : create_session, write_sources,              *)
(*                             write_report, write_manifest                *)
(*   - config.py, cli.py     : get_paths, push                             *)
(*                                                                         *)
(* Two specifications share the variables:                                 *)
(*   Spec      - push runs, one step per call of push, over a filesystem   *)
(*               that persists from run to run;                            *)
(*   SpecParse - parse_range applied to range strings and injected nows.   *)
(*                                                                         *)
(* Texts that are parsed are sequences of one-character strings; texts     *)
(* that are produced are strings.                                          *)
(***************************************************************************)
EXTENDS Integers, Sequences, FiniteSets, TLC

VARIABLES
    platform,       \* platform.system().lower() of the host
    journalctl_ok,  \* TRUE iff a journalctl executable can be started
    libc_pads_year, \* TRUE iff the C library's strftime %Y zero-pads to 4
    clock,          \* the last reading of the wall clock, seconds after ClockBase
    dirs,           \* the directories that exist (set of paths)
    files,          \* the regular files that exist: path -> content
    pc,             \* position of the current push run
    run,            \* the locals of the current push run
    runs,           \* number of push runs started so far
    created,        \* history: sources dirs a create_session returned
    api,            \* the last direct call of create_session, or None
    spec_in,        \* SpecParse: the range string under resolution
    now_in,         \* SpecParse: the injected now_utc
    result          \* SpecParse: what parse_range produced, or NotYet

vars == <<platform, journalctl_ok, libc_pads_year, clock, dirs, files, pc,
          run, runs, created, api, spec_in, now_in, result>>

----------------------------------------------------------------------------
(* Bounds of the model.                                                    *)

MaxRuns == 2        \* push runs in one behaviour
MaxClock == 1       \* seconds the wall clock may advance

----------------------------------------------------------------------------
(* Characters.                                                             *)

Digits == <<"0", "1", "2", "3", "4", "5", "6", "7", "8", "9">>

IsDigit(c) == \E i \in 1..10 : Digits[i] = c

DigitVal(c) == (CHOOSE i \in 1..10 : Digits[i] = c) - 1

UpperLetters == <<"A", "D", "H", "L", "M", "S", "T", "Z">>
LowerLetters == <<"a", "d", "h", "l", "m", "s", "t", "z">>

\* str.lower() on the letters that occur in the model's texts
Lower(c) ==
    IF \E i \in 1..Len(UpperLetters) : UpperLetters[i] = c
    THEN LowerLetters[CHOOSE i \in 1..Len(UpperLetters) : UpperLetters[i] = c]
    ELSE c

IsSpace(c) == c \in {" ", "\t", "\n"}

AllDigits(s) == Len(s) > 0 /\ \A i \in 1..Len(s) : IsDigit(s[i])

RECURSIVE ToInt(_)
\* int(<digits>)
ToInt(s) ==
    IF Len(s) = 0 THEN 0
    ELSE 10 * ToInt(SubSeq(s, 1, Len(s) - 1)) + DigitVal(s[Len(s)])

RECURSIVE Join(_)
\* the string made of the characters of s
Join(s) == IF Len(s) = 0 THEN "" ELSE s[1] \o Join(Tail(s))

RECURSIVE LStrip(_)
LStrip(s) == IF Len(s) > 0 /\ IsSpace(s[1]) THEN LStrip(Tail(s)) ELSE s

RECURSIVE RStrip(_)
RStrip(s) ==
    IF Len(s) > 0 /\ IsSpace(s[Len(s)])
    THEN RStrip(SubSeq(s, 1, Len(s) - 1)) ELSE s

\* str.strip()
Strip(s) == RStrip(LStrip(s))

\* zero-padded decimal rendering, as %m %d %H %M %S render
Pad2(n) == Digits[((n \div 10) % 10) + 1] \o Digits[(n % 10) + 1]

Pad4(n) == Pad2(n \div 100) \o Pad2(n % 100)

RECURSIVE Decimal(_)
\* decimal rendering without padding
Decimal(n) ==
    IF n < 10 THEN Digits[n + 1] ELSE Decimal(n \div 10) \o Digits[(n % 10) + 1]

----------------------------------------------------------------------------
(* datetime / timedelta arithmetic of the standard library, on the         *)
(* proleptic Gregorian calendar: ordinal 1 is 0001-01-01, the largest      *)
(* ordinal is 9999-12-31.  An instant is kept as (ordinal, second of day)  *)
(* because seconds since year 1 do not fit 32 bits.                        *)

MaxOrdinal == 3652059           \* date.max.toordinal()
MaxDeltaDays == 999999999       \* timedelta.max.days
DaySeconds == 86400

IsLeap(y) == (y % 4) = 0 /\ ((y % 100) # 0 \/ (y % 400) = 0)

DaysBeforeYear(y) ==
    LET p == y - 1 IN p * 365 + (p \div 4) - (p \div 100) + (p \div 400)

DaysInMonth(y, m) ==
    IF m = 2 THEN (IF IsLeap(y) THEN 29 ELSE 28)
    ELSE IF m \in {4, 6, 9, 11} THEN 30 ELSE 31

RECURSIVE DaysBeforeMonth(_, _)
DaysBeforeMonth(y, m) ==
    IF m = 1 THEN 0 ELSE DaysBeforeMonth(y, m - 1) + DaysInMonth(y, m - 1)

Ymd2Ord(y, m, d) == DaysBeforeYear(y) + DaysBeforeMonth(y, m) + d

\* the month in which day n (from 0) of the year falls
MonthOfYearDay(year, n) ==
    CHOOSE k \in 1..12 :
        DaysBeforeMonth(year, k) <= n /\ n < DaysBeforeMonth(year, k + 1)

YmdOfMonth(year, month, n) ==
    [year |-> year, month |-> month,
     day |-> n - DaysBeforeMonth(year, month) + 1]

\* _ord2ymd, from the year on: n1 years into a 4-year cycle, day n of it
YmdOfYear(year, n100, n1, n) ==
    IF n1 = 4 \/ n100 = 4
    THEN [year |-> year - 1, month |-> 12, day |-> 31]
    ELSE YmdOfMonth(year, MonthOfYearDay(year, n), n)

\* _ord2ymd, within a century: n4 4-year cycles and r4 days
YmdOfCycle4(base, n100, n4, r4) ==
    YmdOfYear(base + n4 * 4 + (r4 \div 365), n100, r4 \div 365, r4 % 365)

\* _ord2ymd, within a 400-year cycle: n100 centuries and r100 days
YmdOfCentury(base, n100, r100) ==
    YmdOfCycle4(base + n100 * 100, n100, r100 \div 1461, r100 % 1461)

\* _ord2ymd, within the 400-year cycle that starts with year base
YmdOfCycle400(base, r400) ==
    YmdOfCentury(base, r400 \div 36524, r400 % 36524)

\* the [year, month, day] of an ordinal in 1..MaxOrdinal
Ord2Ymd(ord) ==
    YmdOfCycle400(((ord - 1) \div 146097) * 400 + 1, (ord - 1) % 146097)

\* a datetime value; aware = FALSE is a naive datetime (tzinfo is None)
DateTime(y, mo, d, h, mi, s, us, aware, off) ==
    [year |-> y, month |-> mo, day |-> d, hour |-> h, minute |-> mi,
     second |-> s, microsecond |-> us, aware |-> aware, utcoffset |-> off]

OrdOf(dt) == Ymd2Ord(dt.year, dt.month, dt.day)

SecOfDay(dt) == dt.hour * 3600 + dt.minute * 60 + dt.second

Overflow == [status |-> "OverflowError"]

\* timedelta(days=d, seconds=s): normalised, OverflowError beyond the range
Timedelta(d, s) ==
    IF d + (s \div DaySeconds) > MaxDeltaDays
       \/ d + (s \div DaySeconds) < -MaxDeltaDays
    THEN Overflow
    ELSE [status |-> "ok", days |-> d + (s \div DaySeconds),
          seconds |-> s % DaySeconds]

\* the datetime of date ymd and second of day sod, the rest as in dt
Combine(dt, ymd, sod) ==
    DateTime(ymd.year, ymd.month, ymd.day,
             sod \div 3600, (sod % 3600) \div 60, sod % 60,
             dt.microsecond, dt.aware, dt.utcoffset)

\* the datetime at ordinal ord and second sod; OverflowError when ord is
\* not a date of years 1..9999
AtOrdinal(dt, ord, sod) ==
    IF ord < 1 \/ ord > MaxOrdinal THEN Overflow
    ELSE [status |-> "ok", dt |-> Combine(dt, Ord2Ymd(ord), sod)]

\* the datetime ord days and t seconds (any integer) after 0000-12-31
Normalised(dt, ord, t) ==
    AtOrdinal(dt, ord + (t \div DaySeconds), t % DaySeconds)

\* dt - timedelta(days, seconds), the timezone kept
MinusDelta(dt, days, seconds) ==
    Normalised(dt, OrdOf(dt) - days, SecOfDay(dt) - seconds)

\* r with tzinfo=timezone.utc
ReplaceTzUtc(r) ==
    IF r.status # "ok" THEN r
    ELSE [status |-> "ok", dt |-> [r.dt EXCEPT !.utcoffset = 0]]

\* dt.astimezone(timezone.utc) of an aware datetime
AsTimezoneUtc(dt) == ReplaceTzUtc(MinusDelta(dt, 0, dt.utcoffset))

----------------------------------------------------------------------------
(* services/timeparse.py                                                   *)

\* dt.strftime("%Y-%m-%d %H:%M:%S UTC").  %Y is the C library's: glibc
\* renders a year below 1000 without leading zeros, other libraries pad it.
Strftime(dt, pads) ==
    (IF pads THEN Pad4(dt.year) ELSE Decimal(dt.year))
    \o "-" \o Pad2(dt.month) \o "-" \o Pad2(dt.day)
    \o " " \o Pad2(dt.hour) \o ":" \o Pad2(dt.minute) \o ":" \o Pad2(dt.second)
    \o " UTC"

\* the strftime of the result u of astimezone
FormatUtc(u, pads) ==
    IF u.status # "ok" THEN u
    ELSE [status |-> "ok", text |-> Strftime(u.dt, pads)]

\* _format_journalctl_since_arg(dt_utc)
FormatJournalctlSinceArg(dt_utc, pads) ==
    IF ~dt_utc.aware
    THEN [status |-> "ValueError", msg |-> "since_utc must be timezone-aware"]
    ELSE FormatUtc(AsTimezoneUtc(dt_utc), pads)

\* _REL_RE = ^last:(?P<value>\d+)(?P<unit>[smhd])$ with re.IGNORECASE
RelMatch(value) ==
    /\ Len(value) >= 7
    /\ [i \in 1..5 |-> Lower(value[i])] = <<"l", "a", "s", "t", ":">>
    /\ AllDigits(SubSeq(value, 6, Len(value) - 1))
    /\ Lower(value[Len(value)]) \in {"s", "m", "h", "d"}

\* the timedelta of the unit branches of parse_range
DeltaFor(amount, unit) ==
    IF unit = "s" THEN Timedelta(amount \div 86400, amount % 86400)
    ELSE IF unit = "m" THEN Timedelta(amount \div 1440, (amount % 1440) * 60)
    ELSE IF unit = "h" THEN Timedelta(amount \div 24, (amount % 24) * 3600)
    ELSE Timedelta(amount, 0)

\* the two-digit number at s[i], s[i+1], or -1
Num2(s, i) ==
    IF i + 1 <= Len(s) /\ IsDigit(s[i]) /\ IsDigit(s[i + 1])
    THEN ToInt(SubSeq(s, i, i + 1)) ELSE -1

\* index of the first + or - of s, or 0
SignAt(s) ==
    IF \E i \in 1..Len(s) : s[i] \in {"+", "-"}
    THEN CHOOSE i \in 1..Len(s) :
            /\ s[i] \in {"+", "-"}
            /\ \A j \in 1..(i - 1) : s[j] \notin {"+", "-"}
    ELSE 0

IsoError == [status |-> "ValueError", msg |-> "Invalid isoformat string"]

\* the datetime of parsed fields; a field that did not parse is -1
IsoFields(y, mo, d, h, mi, s, aware, mag, negative) ==
    IF /\ y >= 1 /\ mo \in 1..12
       /\ d >= 1 /\ d <= DaysInMonth(y, mo)
       /\ h \in 0..23 /\ mi \in 0..59 /\ s \in 0..59
       /\ mag >= 0 /\ mag < DaySeconds
    THEN [status |-> "ok",
          dt |-> DateTime(y, mo, d, h, mi, s, 0, aware,
                          IF negative THEN -mag ELSE mag)]
    ELSE IsoError

\* the offset HH:MM in seconds, or -1
IsoOffset(tz) ==
    IF Len(tz) = 5 /\ tz[3] = ":" /\ Num2(tz, 1) >= 0 /\ Num2(tz, 4) >= 0
    THEN Num2(tz, 1) * 3600 + Num2(tz, 4) * 60 ELSE -1

\* the time HH:MM[:SS] tm and the offset tz after the date y-mo-d
IsoTime(y, mo, d, tm, aware, tz, negative) ==
    IF Len(tm) \in {5, 8} /\ tm[3] = ":" /\ (Len(tm) = 8 => tm[6] = ":")
    THEN IsoFields(y, mo, d, Num2(tm, 1), Num2(tm, 4),
                   IF Len(tm) = 8 THEN Num2(tm, 7) ELSE 0,
                   aware, IF aware THEN IsoOffset(tz) ELSE 0, negative)
    ELSE IsoError

\* what follows the date and its separator: rest, its first sign at sg
IsoRest(y, mo, d, rest, sg) ==
    IF sg = 0 THEN IsoTime(y, mo, d, rest, FALSE, <<>>, FALSE)
    ELSE IsoTime(y, mo, d, SubSeq(rest, 1, sg - 1), TRUE,
                 SubSeq(rest, sg + 1, Len(rest)), rest[sg] = "-")

\* datetime.fromisoformat(iso), for the extended format
\*   YYYY-MM-DD[<sep>HH:MM[:SS][(+|-)HH:MM]]
\* (basic format, week dates and fractions of a second are not modelled
\* and no input of the model has them)
FromIsoFormat(iso) ==
    IF ~(/\ Len(iso) >= 10
         /\ AllDigits(SubSeq(iso, 1, 4))
         /\ iso[5] = "-" /\ iso[8] = "-")
    THEN IsoError
    ELSE IF Len(iso) = 10
    THEN IsoFields(ToInt(SubSeq(iso, 1, 4)), Num2(iso, 6), Num2(iso, 9),
                   0, 0, 0, FALSE, 0, FALSE)
    ELSE IsoRest(ToInt(SubSeq(iso, 1, 4)), Num2(iso, 6), Num2(iso, 9),
                 SubSeq(iso, 12, Len(iso)), SignAt(SubSeq(iso, 12, Len(iso))))

\* TimeRange(range_input=value, since_utc=since, since_arg=a)
MakeTimeRange(value, since, a) ==
    IF a.status # "ok" THEN a
    ELSE [status |-> "ok", range_input |-> Join(value),
          since_utc |-> since, since_arg |-> a.text]

\* the TimeRange a successful parse_range returns
TimeRange(value, since, pads) ==
    MakeTimeRange(value, since, FormatJournalctlSinceArg(since, pads))

\* the result of `since = now - delta` made into a TimeRange
RelativeSince(value, since, pads) ==
    IF since.status # "ok" THEN since ELSE TimeRange(value, since.dt, pads)

\* now_utc.astimezone(timezone.utc) - delta
RelativeFrom(value, nowu, delta, pads) ==
    IF delta.status # "ok" THEN delta
    ELSE IF nowu.status # "ok" THEN nowu
    ELSE RelativeSince(value,
                       MinusDelta(nowu.dt, delta.days, delta.seconds), pads)

\* the relative branch of parse_range, from the matched groups
RelativeAmount(value, amount, unit, now_utc, pads) ==
    IF amount <= 0
    THEN [status |-> "ValueError", msg |-> "relative range amount must be > 0"]
    ELSE RelativeFrom(value, AsTimezoneUtc(now_utc), DeltaFor(amount, unit),
                      pads)

\* the relative branch of parse_range
ParseRelative(value, now_utc, pads) ==
    RelativeAmount(value, ToInt(SubSeq(value, 6, Len(value) - 1)),
                   Lower(value[Len(value)]), now_utc, pads)

\* dt.astimezone(timezone.utc) made into a TimeRange
AbsoluteSince(value, u, pads) ==
    IF u.status # "ok" THEN u ELSE TimeRange(value, u.dt, pads)

\* fault: a datetime without offset is taken to be UTC
AbsoluteFromNaiveAsUtc(value, p, pads) ==
    IF p.status # "ok"
    THEN [status |-> "ValueError", msg |-> "invalid range"]
    ELSE AbsoluteSince(value,
                       AsTimezoneUtc([p.dt EXCEPT !.aware = TRUE]), pads)

\* the ISO branch of parse_range, from the result p of fromisoformat
AbsoluteFrom(value, p, pads) ==
    IF p.status # "ok"
    THEN [status |-> "ValueError", msg |-> "invalid range"]
    ELSE IF ~p.dt.aware
    THEN [status |-> "ValueError", msg |-> "ISO datetime must include timezone"]
    ELSE AbsoluteSince(value, AsTimezoneUtc(p.dt), pads)

\* the ISO branch of parse_range
ParseAbsolute(value, pads) ==
    AbsoluteFrom(value,
                 FromIsoFormat(IF value[Len(value)] = "Z"
                               THEN SubSeq(value, 1, Len(value) - 1)
                                    \o <<"+", "0", "0", ":", "0", "0">>
                               ELSE value),
                 pads)

\* parse_range after the checks of its arguments
ParseValue(value, now_utc, pads) ==
    IF RelMatch(value) THEN ParseRelative(value, now_utc, pads)
    ELSE ParseAbsolute(value, pads)

\* parse_range(range_value, now_utc=now_utc)
ParseRange(range_value, now_utc, pads) ==
    IF Len(range_value) = 0 \/ Len(Strip(range_value)) = 0
    THEN [status |-> "ValueError", msg |-> "range must be a non-empty string"]
    ELSE IF ~now_utc.aware
    THEN [status |-> "ValueError", msg |-> "now_utc must be timezone-aware"]
    ELSE ParseValue(Strip(range_value), now_utc, pads)

----------------------------------------------------------------------------
(* The host: wall clock and filesystem.  A path is a sequence of names.    *)

\* the wall clock when the model starts
ClockBase == DateTime(2025, 12, 30, 11, 59, 59, 0, TRUE, 0)

\* datetime.now(timezone.utc)
Now(c) == MinusDelta(ClockBase, 0, -c).dt

Home == <<"~">>

Parent(p) == SubSeq(p, 1, Len(p) - 1)

Prefixes(p) == {SubSeq(p, 1, k) : k \in 1..Len(p)}

NoFiles == [p \in {} |-> ""]

\* fault: os.mkdir that takes an existing directory for a success, as a
\* mkdir with exist_ok=True does
OsMkdirExistOk(d, f, p) ==
    IF p \in d THEN [status |-> "ok", dirs |-> d]
    ELSE IF p \in DOMAIN f THEN [status |-> "FileExistsError", dirs |-> d]
    ELSE IF Parent(p) \notin d THEN [status |-> "FileNotFoundError", dirs |-> d]
    ELSE [status |-> "ok", dirs |-> d \cup {p}]

\* os.mkdir(p): one system call
OsMkdir(d, f, p) ==
    IF p \in d \/ p \in DOMAIN f THEN [status |-> "FileExistsError", dirs |-> d]
    ELSE IF Parent(p) \notin d THEN [status |-> "FileNotFoundError", dirs |-> d]
    ELSE [status |-> "ok", dirs |-> d \cup {p}]

\* Path(p).mkdir(parents=True, exist_ok=True); no file of the model lies
\* on such a path
MkdirParents(d, p) == d \cup Prefixes(p)

\* Path(p).write_text(content)
WriteText(f, p, content) ==
    [q \in DOMAIN f \cup {p} |-> IF q = p THEN content ELSE f[q]]

----------------------------------------------------------------------------
(* config.py                                                               *)

HomeDir == Append(Home, ".kernicle")

ArchivesDir == Append(HomeDir, "archives")

\* get_paths(): the directories after archives_dir.mkdir(parents=True,
\* exist_ok=True)
GetPathsDirs(d) == MkdirParents(d, ArchivesDir)

----------------------------------------------------------------------------
(* services/archive.py                                                     *)

\* session_timestamp_utc(): strftime("%Y%m%dT%H%M%SZ") of the wall clock
SessionTimestampUtc(dt, pads) ==
    (IF pads THEN Pad4(dt.year) ELSE Decimal(dt.year))
    \o Pad2(dt.month) \o Pad2(dt.day) \o "T"
    \o Pad2(dt.hour) \o Pad2(dt.minute) \o Pad2(dt.second) \o "Z"

SessionDir(archives_dir, timestamp) ==
    Append(archives_dir, "session-" \o timestamp)

SourcesDir(archives_dir, timestamp) ==
    Append(SessionDir(archives_dir, timestamp), "sources")

ReportPath(session_dir) == Append(session_dir, "report.txt")

ManifestPath(session_dir) == Append(session_dir, "manifest.json")

SessionPaths(archives_dir, timestamp) ==
    [session_dir   |-> SessionDir(archives_dir, timestamp),
     sources_dir   |-> SourcesDir(archives_dir, timestamp),
     report_path   |-> ReportPath(SessionDir(archives_dir, timestamp)),
     manifest_path |-> ManifestPath(SessionDir(archives_dir, timestamp))]

\* after the first os.mkdir of sources_dir ended as r: when the parent is
\* missing the parents are made and status "retry" leaves the second
\* os.mkdir to be done
MkdirSourcesParents(d, r, sources_dir) ==
    IF r.status = "FileNotFoundError"
    THEN [status |-> "retry", dirs |-> MkdirParents(d, Parent(sources_dir))]
    ELSE r

\* sources_dir.mkdir(parents=True, exist_ok=False), its first half
MkdirSourcesFirst(d, f, sources_dir) ==
    MkdirSourcesParents(d, OsMkdir(d, f, sources_dir), sources_dir)

\* its second half: self.mkdir(mode, parents=False, exist_ok=False)
MkdirSourcesLeaf(d, f, sources_dir) == OsMkdir(d, f, sources_dir)

\* the whole mkdir, a being the outcome of its first half
MkdirSourcesRest(a, f, sources_dir) ==
    IF a.status = "retry" THEN MkdirSourcesLeaf(a.dirs, f, sources_dir) ELSE a

\* create_session's result from the outcome b of the mkdir
SessionResult(b, sp) == [status |-> b.status, dirs |-> b.dirs, paths |-> sp]

\* create_session for the paths sp
CreateSessionAt(d, f, sp) ==
    SessionResult(MkdirSourcesRest(MkdirSourcesFirst(d, f, sp.sources_dir),
                                   f, sp.sources_dir), sp)

\* create_session(archives_dir, timestamp=timestamp), run to its end
CreateSession(d, f, archives_dir, timestamp) ==
    CreateSessionAt(d, f, SessionPaths(archives_dir, timestamp))

KernelName == "journalctl-kernel.log"

SystemName == "journalctl-system.log"

\* write_report's lines
ReportLines(tool, version, range_input, since_utc_iso, sources_mapping, warnings) ==
    <<tool \o " v" \o version, "Sprint 1 report (capture-only)", "",
      "range_input: " \o range_input, "since_utc: " \o since_utc_iso, "",
      "sources_written:">>
    \o [i \in 1..Len(sources_mapping) |->
          "  - " \o sources_mapping[i].key \o ": sources/"
          \o sources_mapping[i].file]
    \o <<"", "notes:", "  - Sprint 1 captures logs only.",
         "  - Panic/anomaly detection arrives in Sprint 2.">>
    \o (IF Len(warnings) > 0
        THEN <<"", "warnings:">>
             \o [i \in 1..Len(warnings) |-> "  - " \o warnings[i]]
             \o <<"", "permissions_hint:",
                  "  - If journalctl capture failed, try running with sudo",
                  "    or add your user to the systemd-journal group.">>
        ELSE <<>>)

PlannedFeaturesPayload ==
    [panic_detection |-> "Sprint 2", anomaly_metrics |-> "Sprint 2+",
     zip_and_git_export |-> "Sprint 3+", background_sessions |-> "Sprint 3+",
     encryption |-> "Sprint 4+"]

\* write_manifest's payload
ManifestPayload(tool, version, range_input, since_utc_iso, kernel_only, sources_mapping, warnings, errors) ==
    [tool |-> tool, version |-> version, range_input |-> range_input,
     since_utc |-> since_utc_iso, kernel_only |-> kernel_only,
     sources |-> sources_mapping, warnings |-> warnings, errors |-> errors,
     planned_features |-> PlannedFeaturesPayload]

----------------------------------------------------------------------------
(* services/journal.py                                                     *)

\* what a journalctl process that started can return: exit code and the
\* captured streams (stderr already free of surrounding whitespace)
ProcOutcomes ==
    {[returncode |-> 0, stdout |-> "2025-12-30T11:58:00+0000 host kernel: up",
      stderr |-> ""],
     [returncode |-> 1, stdout |-> "", stderr |-> "Permission denied"]}

\* _run_journalctl(args) for a process that returned proc
RunJournalctl(args, proc) ==
    [ok |-> (proc.returncode = 0), command |-> <<"journalctl">> \o args,
     stdout |-> proc.stdout, stderr |-> proc.stderr,
     returncode |-> proc.returncode]

CaptureKernelResult(since_arg, proc) ==
    RunJournalctl(<<"-k", "--since", since_arg, "--no-pager",
                    "--output=short-iso">>, proc)

CaptureSystemResult(since_arg, proc) ==
    RunJournalctl(<<"--since", since_arg, "--no-pager",
                    "--output=short-iso">>, proc)

----------------------------------------------------------------------------
(* cli.py: push                                                            *)

Tool == "kernicle"

\* kernicle.__version__
Version == "__version__"

Pad6(n) == Pad2(n \div 10000) \o Pad4(n % 10000)

\* dt.isoformat().replace("+00:00", "Z") of a UTC datetime
SinceIso(dt) ==
    Pad4(dt.year) \o "-" \o Pad2(dt.month) \o "-" \o Pad2(dt.day) \o "T"
    \o Pad2(dt.hour) \o ":" \o Pad2(dt.minute) \o ":" \o Pad2(dt.second)
    \o (IF dt.microsecond = 0 THEN "" ELSE "." \o Pad6(dt.microsecond))
    \o "Z"

\* the warning push records for a failed capture
CaptureWarning(which, res) ==
    "journalctl " \o which \o " capture failed (rc=" \o Decimal(res.returncode)
    \o "). stderr: " \o (IF res.stderr = "" THEN "(empty)" ELSE res.stderr)

\* fault: the failed capture is not recorded
WarningsAfterNoAppend(warnings, which, res) == warnings

\* `if not res.ok: warnings.append(msg)`
WarningsAfter(warnings, which, res) ==
    IF res.ok THEN warnings ELSE Append(warnings, CaptureWarning(which, res))

\* the values of --range that push is run with
PushRanges ==
    { <<"l", "a", "s", "t", ":", "5", "m">>,
      <<"y", "e", "s", "t", "e", "r", "d", "a", "y">>,
      <<"l", "a", "s", "t", ":", "1", "0", "0", "0", "0", "0", "0", "0", "0",
        "0", "d">> }

\* the archives roots and the explicit timestamp create_session is called
\* with directly; the timestamp is the wall clock's first
ArchiveRoots == {ArchivesDir, <<"~", "other-archives">>}

ExplicitTimestamps == {"20251230T115959Z"}

None == [status |-> "none"]

\* the locals of a push run that has just been entered
NewRun(range, kernel_only) ==
    [range |-> range, kernel_only |-> kernel_only,
     tr |-> None, since_iso |-> "",
     target |-> None,            \* the paths create_session computes
     session |-> None,           \* the SessionPaths it returned
     warnings |-> <<>>, errors |-> <<>>,
     kernel_res |-> None, sys_res |-> None, system_log |-> None,
     sources_mapping |-> <<>>,
     captures |-> <<>>,          \* history: the journalctl commands started
     dirs0 |-> dirs, files0 |-> files,   \* history: the filesystem at entry
     error |-> ""]               \* the exception or exit that ended the run

Ended == {"done", "exit2", "crashed", "killed"}

Running == pc \notin Ended \cup {"idle"}

ParseFixed == UNCHANGED <<spec_in, now_in, result>>

HostFixed == UNCHANGED <<platform, journalctl_ok, libc_pads_year>>

\* `kernicle push --range <range> [--kernel-only | --all]` is started
PushEnter(range, kernel_only) ==
    /\ ~Running
    /\ runs < MaxRuns
    /\ runs' = runs + 1
    /\ run' = NewRun(range, kernel_only)
    /\ pc' = "check_platform"
    /\ UNCHANGED <<clock, dirs, files, created, api>>
    /\ HostFixed /\ ParseFixed

\* cli.py 36-39
CheckPlatform ==
    /\ pc = "check_platform"
    /\ IF platform # "linux"
       THEN pc' = "exit2" /\ run' = [run EXCEPT !.error = "not linux"]
       ELSE pc' = "get_paths" /\ run' = run
    /\ UNCHANGED <<clock, dirs, files, runs, created, api>>
    /\ HostFixed /\ ParseFixed

\* cli.py 41
GetPaths ==
    /\ pc = "get_paths"
    /\ dirs' = GetPathsDirs(dirs)
    /\ pc' = "parse_range"
    /\ UNCHANGED <<clock, files, run, runs, created, api>>
    /\ HostFixed /\ ParseFixed

\* cli.py 45-49: what push does with the outcome tr of parse_range
Resolved(tr) ==
    IF tr.status = "ValueError"
    THEN pc' = "exit2" /\ run' = [run EXCEPT !.error = "Invalid --range"]
    ELSE IF tr.status # "ok"
    THEN pc' = "crashed" /\ run' = [run EXCEPT !.error = tr.status]
    ELSE /\ pc' = "create_session"
         /\ run' = [run EXCEPT !.tr = tr, !.since_iso = SinceIso(tr.since_utc)]

\* cli.py 43-53; parse_range reads the wall clock, which has advanced to c
ResolveRange ==
    /\ pc = "parse_range"
    /\ \E c \in clock..MaxClock :
          /\ clock' = c
          /\ Resolved(ParseRange(run.range, Now(c), libc_pads_year))
    /\ UNCHANGED <<dirs, files, runs, created, api>>
    /\ HostFixed /\ ParseFixed

\* the new pc after the mkdir of create_session ended with status
PcAfterMkdir(status) ==
    IF status = "ok" THEN "capture_kernel"
    ELSE IF status = "retry" THEN "create_session_leaf"
    ELSE "crashed"

\* archive.py 45: the outcome r of an os.mkdir of sp.sources_dir
SessionMkdir(sp, r) ==
    /\ dirs' = r.dirs
    /\ pc' = PcAfterMkdir(r.status)
    /\ run' = [run EXCEPT !.target = sp,
                          !.session = IF r.status = "ok" THEN sp ELSE @,
                          !.error = IF r.status \in {"ok", "retry"} THEN @
                                    ELSE r.status]
    /\ created' = IF r.status = "ok" THEN created \cup {sp.sources_dir}
                  ELSE created

\* archive.py 40-45: the paths, then the first os.mkdir
SessionMkdirFirst(sp) ==
    SessionMkdir(sp, MkdirSourcesFirst(dirs, files, sp.sources_dir))

\* cli.py 55, archive.py 37-45; session_timestamp_utc reads the wall clock,
\* which has advanced to c
CreateSessionMkdir ==
    /\ pc = "create_session"
    /\ \E c \in clock..MaxClock :
          /\ clock' = c
          /\ SessionMkdirFirst(SessionPaths(ArchivesDir,
                  SessionTimestampUtc(Now(c), libc_pads_year)))
    /\ UNCHANGED <<files, runs, api>>
    /\ HostFixed /\ ParseFixed

\* archive.py 45-55: the second os.mkdir of sources_dir, after the parents
CreateSessionLeaf ==
    /\ pc = "create_session_leaf"
    /\ SessionMkdir(run.target,
                    MkdirSourcesLeaf(dirs, files, run.target.sources_dir))
    /\ UNCHANGED <<clock, files, runs, api>>
    /\ HostFixed /\ ParseFixed

\* cli.py 60-66: the result res of capture_kernel
KernelCaptured(res) ==
    /\ run' = [run EXCEPT !.kernel_res = res,
                          !.captures = Append(@, res.command),
                          !.warnings = WarningsAfter(@, "kernel", res)]
    /\ pc' = "capture_system"

\* cli.py 60-66; subprocess.run raises FileNotFoundError when there is no
\* journalctl to start
CaptureKernel ==
    /\ pc = "capture_kernel"
    /\ IF ~journalctl_ok
       THEN pc' = "crashed" /\ run' = [run EXCEPT !.error = "FileNotFoundError"]
       ELSE \E proc \in ProcOutcomes :
               KernelCaptured(CaptureKernelResult(run.tr.since_arg, proc))
    /\ UNCHANGED <<clock, dirs, files, runs, created, api>>
    /\ HostFixed /\ ParseFixed

\* cli.py 70-77: the result res of capture_system
SystemCaptured(res) ==
    /\ run' = [run EXCEPT !.sys_res = res,
                          !.system_log = [status |-> "some", text |-> res.stdout],
                          !.captures = Append(@, res.command),
                          !.warnings = WarningsAfter(@, "system", res)]
    /\ pc' = "write_kernel_source"

\* fault: the system capture is made whatever the scope
WantsSystemAlways(kernel_only) == TRUE

\* `if not kernel_only:` of cli.py 69
WantsSystem(kernel_only) == ~kernel_only

\* cli.py 68-77
CaptureSystem ==
    /\ pc = "capture_system"
    /\ IF ~WantsSystem(run.kernel_only)
       THEN pc' = "write_kernel_source" /\ run' = run
       ELSE IF ~journalctl_ok
       THEN pc' = "crashed" /\ run' = [run EXCEPT !.error = "FileNotFoundError"]
       ELSE \E proc \in ProcOutcomes :
               SystemCaptured(CaptureSystemResult(run.tr.since_arg, proc))
    /\ UNCHANGED <<clock, dirs, files, runs, created, api>>
    /\ HostFixed /\ ParseFixed

\* cli.py 79-83, archive.py 66-74: the kernel file of write_sources
WriteKernelSource ==
    /\ pc = "write_kernel_source"
    /\ files' = WriteText(files, Append(run.session.sources_dir, KernelName),
                          run.kernel_res.stdout)
    /\ run' = [run EXCEPT !.sources_mapping =
                  Append(@, [key |-> "journalctl_kernel", file |-> KernelName])]
    /\ pc' = "write_system_source"
    /\ UNCHANGED <<clock, dirs, runs, created, api>>
    /\ HostFixed /\ ParseFixed

\* `if system_log is not None:` of archive.py 75
HasSystemLog(system_log) == system_log # None

\* fault: the manifest is written right after the sources
AfterSourcesManifestFirst == "write_manifest"

\* the step of push that follows write_sources
AfterSources == "write_report"

\* archive.py 75-80: the system file of write_sources, if there is one
WriteSystemSource ==
    /\ pc = "write_system_source"
    /\ IF HasSystemLog(run.system_log)
       THEN /\ files' = WriteText(files,
                            Append(run.session.sources_dir, SystemName),
                            run.system_log.text)
            /\ run' = [run EXCEPT !.sources_mapping =
                  Append(@, [key |-> "journalctl_system", file |-> SystemName])]
       ELSE files' = files /\ run' = run
    /\ pc' = AfterSources
    /\ UNCHANGED <<clock, dirs, runs, created, api>>
    /\ HostFixed /\ ParseFixed

\* cli.py 85-93
WriteReport ==
    /\ pc = "write_report"
    /\ files' = WriteText(files, run.session.report_path,
                    ReportLines(Tool, Version, run.tr.range_input,
                                run.since_iso, run.sources_mapping,
                                run.warnings))
    /\ pc' = "write_manifest"
    /\ UNCHANGED <<clock, dirs, run, runs, created, api>>
    /\ HostFixed /\ ParseFixed

\* cli.py 95-105
WriteManifest ==
    /\ pc = "write_manifest"
    /\ files' = WriteText(files, run.session.manifest_path,
                    ManifestPayload(Tool, Version, run.tr.range_input,
                                    run.since_iso, run.kernel_only,
                                    run.sources_mapping, run.warnings,
                                    run.errors))
    /\ pc' = "done"
    /\ UNCHANGED <<clock, dirs, run, runs, created, api>>
    /\ HostFixed /\ ParseFixed

\* the process is killed between two of its steps
Interrupt ==
    /\ Running
    /\ pc' = "killed"
    /\ run' = [run EXCEPT !.error = "killed"]
    /\ UNCHANGED <<clock, dirs, files, runs, created, api>>
    /\ HostFixed /\ ParseFixed

\* archive.py 37-55: what a direct call leaves, r being its outcome
SessionCalled(archives_dir, timestamp, r) ==
    /\ dirs' = r.dirs
    /\ api' = [archives_dir |-> archives_dir, timestamp |-> timestamp,
               status |-> r.status, paths |-> r.paths]
    /\ created' = IF r.status = "ok" THEN created \cup {r.paths.sources_dir}
                  ELSE created

\* create_session(archives_dir, timestamp=timestamp) is called directly,
\* while no push is running
CreateSessionCall(archives_dir, timestamp) ==
    /\ ~Running
    /\ runs < MaxRuns
    /\ runs' = runs + 1
    /\ SessionCalled(archives_dir, timestamp,
                     CreateSession(dirs, files, archives_dir, timestamp))
    /\ UNCHANGED <<clock, files, pc, run>>
    /\ HostFixed /\ ParseFixed

Init ==
    /\ platform \in {"linux", "darwin"}
    /\ journalctl_ok \in BOOLEAN
    /\ libc_pads_year = (platform # "linux")   \* glibc on Linux
    /\ clock = 0
    /\ dirs = {Home}
    /\ files = NoFiles
    /\ pc = "idle"
    /\ run = None
    /\ runs = 0
    /\ created = {}
    /\ api = None
    /\ spec_in = <<>>
    /\ now_in = None
    /\ result = None

Next ==
    \/ \E range \in PushRanges, kernel_only \in BOOLEAN :
          PushEnter(range, kernel_only)
    \/ CheckPlatform
    \/ GetPaths
    \/ ResolveRange
    \/ CreateSessionMkdir
    \/ CreateSessionLeaf
    \/ CaptureKernel
    \/ CaptureSystem
    \/ WriteKernelSource
    \/ WriteSystemSource
    \/ WriteReport
    \/ WriteManifest
    \/ Interrupt
    \/ \E archives_dir \in ArchiveRoots, timestamp \in ExplicitTimestamps :
          CreateSessionCall(archives_dir, timestamp)

Spec == Init /\ [][Next]_vars

----------------------------------------------------------------------------
(* parse_range on its own: the range strings and the injected nows.  Every *)
(* input carries, beside its characters, what it was built from.           *)

MaxAmount == 3      \* the amounts 1..MaxAmount are all tried

RECURSIVE DecimalChars(_)
\* the decimal digits of n
DecimalChars(n) ==
    IF n < 10 THEN <<Digits[n + 1]>>
    ELSE Append(DecimalChars(n \div 10), Digits[(n % 10) + 1])

Chars2(n) == <<Digits[((n \div 10) % 10) + 1], Digits[(n % 10) + 1]>>

Chars4(n) == Chars2(n \div 100) \o Chars2(n % 100)

\* amounts beyond MaxAmount: a day and a leap day are crossed, the year
\* falls below 1000 and below 1, and timedelta itself overflows
OtherAmounts == {30, 90, 1440, 86400, 400000, 740000, 1000000000}

Amounts == (1..MaxAmount) \cup OtherAmounts

LastPrefixes == { <<"l", "a", "s", "t", ":">>, <<"L", "A", "S", "T", ":">>,
                  <<"L", "a", "s", "t", ":">> }

UnitLetters == {"s", "m", "h", "d", "S", "M", "H", "D"}

\* whitespace around a spec: <<before, after>>
Paddings == { <<<<>>, <<>>>>, <<<<" ">>, <<"\t", "\n">>>> }

RelativeInputs ==
    { [chars |-> pad[1] \o pre \o zeros \o DecimalChars(n) \o <<u>> \o pad[2],
       kind |-> "relative", n |-> n, unit |-> Lower(u)] :
         pre \in LastPrefixes, zeros \in {<<>>, <<"0">>},
         n \in Amounts, u \in UnitLetters, pad \in Paddings }

NonPositiveInputs ==
    { [chars |-> pre \o amount \o <<u>>, kind |-> "nonpositive"] :
         pre \in LastPrefixes,
         amount \in { <<"0">>, <<"0", "0">>, <<"-", "5">>, <<"-", "0">> },
         u \in UnitLetters }

BlankInputs ==
    { [chars |-> c, kind |-> "blank"] :
         c \in { <<>>, <<" ">>, <<" ", "\t">>, <<"\n">> } }

\* the wall-clock fields of the absolute inputs
IsoLocals ==
    { DateTime(2025, 12, 30, 12, 0, 0, 0, FALSE, 0),
      DateTime(2025, 12, 30, 23, 30, 0, 0, FALSE, 0),
      DateTime(2024, 2, 29, 0, 15, 0, 0, FALSE, 0),
      DateTime(2025, 1, 1, 0, 0, 59, 0, FALSE, 0),
      DateTime(999, 12, 30, 12, 0, 0, 0, FALSE, 0),
      DateTime(1, 1, 1, 0, 0, 0, 0, FALSE, 0) }

\* the offsets of the absolute inputs, as written and in seconds
IsoOffsets ==
    { [chars |-> <<"Z">>, seconds |-> 0],
      [chars |-> <<"+", "0", "0", ":", "0", "0">>, seconds |-> 0],
      [chars |-> <<"+", "0", "5", ":", "3", "0">>, seconds |-> 19800],
      [chars |-> <<"-", "0", "5", ":", "3", "0">>, seconds |-> -19800] }

IsoDateChars(dt) ==
    Chars4(dt.year) \o <<"-">> \o Chars2(dt.month) \o <<"-">> \o Chars2(dt.day)

IsoTimeChars(dt) ==
    Chars2(dt.hour) \o <<":">> \o Chars2(dt.minute) \o <<":">>
    \o Chars2(dt.second)

AwareInputs ==
    { [chars |-> IsoDateChars(dt) \o <<sep>> \o IsoTimeChars(dt) \o o.chars,
       kind |-> "iso_aware", local |-> dt, offset |-> o.seconds] :
         dt \in IsoLocals, sep \in {"T", " "}, o \in IsoOffsets }

NaiveInputs ==
    { [chars |-> IsoDateChars(dt) \o <<sep>> \o IsoTimeChars(dt),
       kind |-> "iso_naive"] : dt \in IsoLocals, sep \in {"T", " "} }
    \cup { [chars |-> IsoDateChars(dt), kind |-> "iso_naive"] :
              dt \in IsoLocals }

\* specs of neither grammar
OtherInputs ==
    { [chars |-> c, kind |-> "neither"] :
         c \in { <<"y", "e", "s", "t", "e", "r", "d", "a", "y">>,
                 <<"t", "o", "d", "a", "y">>,
                 <<"l", "a", "s", "t", ":", "5">>,
                 <<"l", "a", "s", "t", ":", "m">>,
                 <<"l", "a", "s", "t", ":", "5", "w">>,
                 <<"l", "a", "s", "t", ":", " ", "5", "m">>,
                 <<"l", "a", "s", "t", "5", "m">>,
                 <<"5", "m">>,
                 <<"2", "0", "2", "5", "-", "1", "3", "-", "0", "1", "T",
                   "0", "0", ":", "0", "0", ":", "0", "0", "Z">>,
                 <<"2", "0", "2", "5", "-", "0", "2", "-", "2", "9", "T",
                   "0", "0", ":", "0", "0", ":", "0", "0", "Z">>,
                 <<"2", "0", "2", "5", "-", "1", "2", "-", "3", "0", "T",
                   "2", "5", ":", "0", "0", ":", "0", "0", "Z">>,
                 <<"2", "0", "2", "5", "-", "1", "2", "-", "3", "0", "T">> } }

RangeInputs ==
    RelativeInputs \cup NonPositiveInputs \cup BlankInputs
    \cup AwareInputs \cup NaiveInputs \cup OtherInputs

\* the injected now_utc: the test's, one with an offset and microseconds,
\* one right after a leap day, and a naive one
Nows ==
    { DateTime(2025, 12, 30, 12, 0, 0, 0, TRUE, 0),
      DateTime(2025, 12, 30, 12, 0, 0, 500000, TRUE, 19800),
      DateTime(2024, 3, 1, 0, 0, 0, 0, TRUE, 0),
      DateTime(2025, 12, 30, 12, 0, 0, 0, FALSE, 0) }

InitParse ==
    /\ spec_in \in RangeInputs
    /\ now_in \in Nows
    /\ libc_pads_year \in BOOLEAN
    /\ result = None
    /\ platform = "linux"
    /\ journalctl_ok = TRUE
    /\ clock = 0
    /\ dirs = {Home}
    /\ files = NoFiles
    /\ pc = "idle"
    /\ run = None
    /\ runs = 0
    /\ created = {}
    /\ api = None

\* parse_range(spec_in, now_utc=now_in) returns or raises
Resolve ==
    /\ result = None
    /\ result' = ParseRange(spec_in.chars, now_in, libc_pads_year)
    /\ UNCHANGED <<spec_in, now_in, libc_pads_year, platform, journalctl_ok,
                   clock, dirs, files, pc, run, runs, created, api>>

NextParse == Resolve

SpecParse == InitParse /\ [][NextParse]_vars

----------------------------------------------------------------------------
(* Properties of push runs, checked under Spec.                            *)

Exists(p) == p \in DOMAIN files

KernelFile(sp) == Append(sp.sources_dir, KernelName)

SystemFile(sp) == Append(sp.sources_dir, SystemName)

\* the files of session sp
FilesIn(sp) ==
    {p \in DOMAIN files : Parent(p) \in {sp.session_dir, sp.sources_dir}}

InRun == run # None

FailedKernel == InRun /\ run.kernel_res # None /\ ~run.kernel_res.ok

FailedSystem == InRun /\ run.sys_res # None /\ ~run.sys_res.ok

\* C1: Degraded capture.  A push run in which a journalctl invocation
\* returned a non-zero exit code does not abort, and when it has ended
\* report.txt and manifest.json are written, the warnings recorded in both
\* are non-empty, and the source file of each failed capture exists and
\* holds the stdout that was returned.
C1_DegradedCapture ==
    (FailedKernel \/ FailedSystem) =>
        /\ pc \notin {"exit2", "crashed"}
        /\ pc = "done" =>
             /\ Exists(run.session.report_path)
             /\ Exists(run.session.manifest_path)
             /\ files[run.session.manifest_path].warnings # <<>>
             /\ \E i \in DOMAIN files[run.session.report_path] :
                   files[run.session.report_path][i] = "warnings:"
             /\ FailedKernel =>
                  /\ Exists(KernelFile(run.session))
                  /\ files[KernelFile(run.session)] = run.kernel_res.stdout
             /\ FailedSystem =>
                  /\ Exists(SystemFile(run.session))
                  /\ files[SystemFile(run.session)] = run.sys_res.stdout

\* an all-scope run has ended whose kernel capture failed with empty stdout
C1_Witness ==
    /\ pc = "done" /\ ~run.kernel_only
    /\ FailedKernel /\ run.kernel_res.stdout = ""
    /\ Exists(KernelFile(run.session))

\* the journalctl captures a run of this scope makes
CapturesOf(kernel_only) == IF kernel_only THEN 1 ELSE 2

\* C2: Artifact write order.  In every state of a push run that created
\* its session (also one it was interrupted in): manifest.json exists only
\* if report.txt exists, report.txt exists only if every source file of the
\* run exists, and a file exists in the session only if all capture
\* attempts of the run are over.
C2_ArtifactWriteOrder ==
    (InRun /\ run.session # None) =>
        /\ Exists(run.session.manifest_path) => Exists(run.session.report_path)
        /\ Exists(run.session.report_path) =>
             /\ Exists(KernelFile(run.session))
             /\ ~run.kernel_only => Exists(SystemFile(run.session))
        /\ FilesIn(run.session) # {} =>
             Len(run.captures) = CapturesOf(run.kernel_only)

\* an all-scope run was killed after report.txt and before manifest.json
C2_Witness ==
    /\ pc = "killed" /\ run.session # None /\ ~run.kernel_only
    /\ Exists(run.session.report_path)
    /\ ~Exists(run.session.manifest_path)

\* C3 (as claimed): when range resolution fails the run has created no
\* directory, written no file and started no capture.
C3_NoSideEffectOnInvalidRange ==
    (pc = "exit2" /\ run.error = "Invalid --range") =>
        /\ dirs = run.dirs0
        /\ files = run.files0
        /\ run.captures = <<>>

\* C4 (as claimed): when the run fails because the platform is not Linux
\* or because journalctl cannot be started, it has created no directory
\* and no file.
C4_NoMutationOnEnvironmentError ==
    (\/ pc = "exit2" /\ run.error = "not linux"
     \/ pc = "crashed" /\ run.error = "FileNotFoundError") =>
        /\ dirs = run.dirs0
        /\ files = run.files0

\* a step that is a direct call of create_session
DirectCreateStep == runs' = runs + 1 /\ pc' = pc

\* a step in which push's create_session does its first mkdir
PushCreateStep ==
    /\ pc = "create_session"
    /\ pc' \in {"capture_kernel", "create_session_leaf", "crashed"}

\* C5: Session creation is collision-safe.  Once create_session has
\* succeeded for a root and timestamp, every later create_session with the
\* same root and timestamp fails and leaves the directories and files as
\* they are.
C5_SessionCollisionSafe ==
    [][ /\ (DirectCreateStep /\ api'.paths.sources_dir \in created) =>
              /\ api'.status = "FileExistsError"
              /\ dirs' = dirs /\ files' = files
        /\ (PushCreateStep /\ run'.target.sources_dir \in created) =>
              /\ pc' = "crashed" /\ run'.error = "FileExistsError"
              /\ dirs' = dirs /\ files' = files
      ]_vars

\* a direct create_session has failed on a session that a push run had
\* created and written its artifacts into
C5_Witness ==
    /\ api # None /\ api.status = "FileExistsError"
    /\ api.paths.sources_dir \in created
    /\ Exists(api.paths.manifest_path)

\* C6 (as claimed): create_session fails whenever the session directory
\* already exists, with or without a sources subdirectory, and whenever it
\* succeeds the sources directory exists and is empty.
C6_FailsOnExistingSessionDir ==
    [][ /\ (DirectCreateStep /\ api'.paths.session_dir \in dirs) =>
              api'.status # "ok"
        /\ (DirectCreateStep /\ api'.status = "ok") =>
              /\ api'.paths.sources_dir \in dirs'
              /\ \A p \in DOMAIN files' : Parent(p) # api'.paths.sources_dir
        /\ (PushCreateStep /\ run'.target.session_dir \in dirs) =>
              pc' = "crashed"
        /\ (PushCreateStep /\ pc' = "capture_kernel") =>
              /\ run'.session.sources_dir \in dirs'
              /\ \A p \in DOMAIN files' : Parent(p) # run'.session.sources_dir
      ]_vars

KernelCommand(since_arg) ==
    <<"journalctl", "-k", "--since", since_arg, "--no-pager",
      "--output=short-iso">>

SystemCommand(since_arg) ==
    <<"journalctl", "--since", since_arg, "--no-pager", "--output=short-iso">>

KernelEntry == [key |-> "journalctl_kernel", file |-> "journalctl-kernel.log"]

SystemEntry == [key |-> "journalctl_system", file |-> "journalctl-system.log"]

\* C7: Scope determines the sources.  In a completed push run the kernel
\* capture was started exactly once and journalctl-kernel.log is written;
\* the system capture was started, once and after the kernel capture, and
\* journalctl-system.log is written iff the scope is all; the manifest's
\* sources mapping has the kernel key alone, or the kernel key first and
\* the system key second.
C7_ScopeDeterminesSources ==
    pc = "done" =>
        IF run.kernel_only
        THEN /\ run.captures = <<KernelCommand(run.tr.since_arg)>>
             /\ {p \in DOMAIN files : Parent(p) = run.session.sources_dir}
                  = {KernelFile(run.session)}
             /\ files[run.session.manifest_path].sources = <<KernelEntry>>
        ELSE /\ run.captures = <<KernelCommand(run.tr.since_arg),
                                 SystemCommand(run.tr.since_arg)>>
             /\ {p \in DOMAIN files : Parent(p) = run.session.sources_dir}
                  = {KernelFile(run.session), SystemFile(run.session)}
             /\ files[run.session.manifest_path].sources
                  = <<KernelEntry, SystemEntry>>

\* an all-scope run has completed although its kernel capture failed
C7_Witness ==
    /\ pc = "done" /\ ~run.kernel_only /\ FailedKernel
    /\ Exists(SystemFile(run.session))

----------------------------------------------------------------------------
(* Properties of parse_range, checked under SpecParse.                     *)

HasResult == result # None

UnitSeconds(u) ==
    CASE u = "s" -> 1 [] u = "m" -> 60 [] u = "h" -> 3600 [] u = "d" -> 86400

\* n units as whole days and the seconds left over
DurationDays(n, u) == n \div (86400 \div UnitSeconds(u))

DurationSeconds(n, u) == (n % (86400 \div UnitSeconds(u))) * UnitSeconds(u)

\* the UTC instant of an aware datetime: its day and its second of the day
UtcDay(dt) == OrdOf(dt) + ((SecOfDay(dt) - dt.utcoffset) \div 86400)

UtcSecond(dt) == (SecOfDay(dt) - dt.utcoffset) % 86400

\* the instant n units before now
BeforeDay(now, n, u) ==
    UtcDay(now) - DurationDays(n, u)
    + ((UtcSecond(now) - DurationSeconds(n, u)) \div 86400)

BeforeSecond(now, n, u) == (UtcSecond(now) - DurationSeconds(n, u)) % 86400

\* since is exactly now minus n units, in UTC
ExactlyBefore(since, now, n, u) ==
    /\ since.aware /\ since.utcoffset = 0
    /\ OrdOf(since) = BeforeDay(now, n, u)
    /\ SecOfDay(since) = BeforeSecond(now, n, u)
    /\ since.microsecond = now.microsecond

\* parse_range was given a valid relative spec and an aware now
RelativeCase == HasResult /\ spec_in.kind = "relative" /\ now_in.aware

\* C8 (as claimed): for every valid last:<n><unit>, n a positive integer,
\* and every aware now, parse_range returns a TimeRange whose since_utc is
\* exactly now minus n units, in UTC.
C8_RelativeExactForEveryAmount ==
    RelativeCase =>
        /\ result.status = "ok"
        /\ ExactlyBefore(result.since_utc, now_in, spec_in.n, spec_in.unit)

\* C9: parse_range raises ValueError, and returns no TimeRange, for every
\* spec that is empty or whitespace, every relative spec with a zero or
\* negative amount, every ISO datetime without an offset, and every spec of
\* neither grammar.
C9_InvalidRangeRejected ==
    (HasResult /\ spec_in.kind \in {"blank", "nonpositive", "iso_naive",
                                    "neither"}) =>
        result.status = "ValueError"

\* an ISO datetime without offset was rejected although now was aware
C9_Witness ==
    /\ HasResult /\ spec_in.kind = "iso_naive" /\ now_in.aware
    /\ Len(spec_in.chars) > 10
    /\ result.status = "ValueError"

\* YYYY-MM-DD HH:MM:SS UTC, every field zero-padded
FixedPattern(dt) ==
    Pad4(dt.year) \o "-" \o Pad2(dt.month) \o "-" \o Pad2(dt.day) \o " "
    \o Pad2(dt.hour) \o ":" \o Pad2(dt.minute) \o ":" \o Pad2(dt.second)
    \o " UTC"

\* since is the instant that local time dt with offset off denotes
SameInstant(since, dt, off) ==
    (OrdOf(dt) - OrdOf(since)) * 86400 + SecOfDay(dt) - SecOfDay(since) = off

\* C10 (as claimed): for every accepted spec since_utc is in UTC, an
\* absolute input is converted to the same instant, and since_arg renders
\* since_utc as YYYY-MM-DD HH:MM:SS UTC with zero-padded fields.
C10_SinceArgFixedPattern ==
    (HasResult /\ result.status = "ok") =>
        /\ result.since_utc.aware /\ result.since_utc.utcoffset = 0
        /\ spec_in.kind = "iso_aware" =>
             SameInstant(result.since_utc, spec_in.local, spec_in.offset)
        /\ result.since_arg = FixedPattern(result.since_utc)

=============================================================================
